---- MODULE Spec2Model ----
(***************************************************************************)
(* POTD tracker (src/src/app/page.tsx): the problem store, the cached      *)
(* streak statistics, the handlers that change them and the effects that   *)
(* save them.                                                              *)
(*                                                                         *)
(* Time.  A calendar day is its day number; the string toDateString()      *)
(* gives for a moment is modelled by that day number, and new Date(s) of   *)
(* such a string by the day's local midnight in milliseconds.  A moment    *)
(* ("new Date().getTime()") is today's midnight plus a time of day, drawn  *)
(* afresh by the handler that reads it.  Days are all MsPerDay long (no    *)
(* DST change).                                                            *)
(***************************************************************************)
EXTENDS Integers, Sequences, FiniteSets

VARIABLES
  problems,  \* useState<Problem[]>: records [id, title, completed, completedDate]
  stats,     \* useState<Stats>
  today,     \* the calendar day of the wall clock
  stamp,     \* the newest problem id the store may hold (ids are numbered)
  storage,   \* localStorage: potd-problems, potd-stats and potd-darkmode
  hist,      \* the mark/unmark calls made so far (kept for the properties)
  histLost,  \* TRUE once the record no longer tells how the state was reached
  darkMode   \* useState(false)

vars == <<problems, stats, today, stamp, storage, hist, histLost, darkMode>>

(* ------------------------------ bounds --------------------------------- *)

\* last calendar day the clock reaches (days are 0..MaxDay)
MaxDay == 5
\* most problems the store holds
MaxProblems == 3
\* most non-blank lines of one upload
MaxLines == 2
\* mark/unmark calls recorded in hist before the record is given up
MaxHist == 4
\* cap of stats.totalCompleted: markComplete is not called beyond it (the
\* page's own calls on a store nothing else has touched never reach it)
MaxTotal == 4
\* longest problem list handed to recalculateStatsFromHistory on its own
MaxRecalcLen == 2
\* last completion day in such a list
MaxRecalcDay == 3

(* ------------------------------ values --------------------------------- *)

\* an absent completedDate / lastCompletedDate (undefined)
NoDate == -1

\* 1000 * 60 * 60 * 24
MsPerDay == 86400000

\* times of day a handler can run at: just after midnight, just before the next
TimesOfDay == {0, MsPerDay - 1}

\* new Date(dateString).getTime(): local midnight of that day
getTime(dateString) == dateString * MsPerDay

\* new Date().toDateString(): the calendar day of the present moment
todayString == today

\* yesterday.setDate(yesterday.getDate() - 1); yesterday.toDateString()
yesterdayString == today - 1

\* new Date().getTime() at time of day tod
nowMs(tod) == today * MsPerDay + tod

\* Math.round(n / d) for n >= 0, d > 0
MathRound(n, d) == (2 * n + d) \div (2 * d)

\* Math.floor(n / d) for d > 0
MathFloor(n, d) == n \div d

\* a maximum that always takes its first argument
MathMax_first(a, b) == a

MathMax(a, b) == IF a >= b THEN a ELSE b

\* useState<Stats> initial value
initialStats ==
  [currentStreak |-> 0, longestStreak |-> 0, totalCompleted |-> 0,
   lastCompletedDate |-> NoDate]

\* ids: `problem-${Date.now()}-${index}` is an opaque string, only ever compared
\* with ===, and differs from every id made before as long as no two uploads
\* read the same millisecond; the n-th problem ever made has the id n here.
\* Id 0 is a string no problem has.
IdUniverse == 0..MaxProblems

(* --------------------------- pure functions ---------------------------- *)

\* .filter(p => p.completed && p.completedDate)
completedWithDate(problemList) ==
  SelectSeq(problemList, LAMBDA p : p.completed /\ p.completedDate # NoDate)

\* one step of the stable sort: p goes after every element not later than it
RECURSIVE insertByDate(_, _)
insertByDate(sorted, p) ==
  IF sorted = <<>> THEN <<p>>
  ELSE IF getTime(Head(sorted).completedDate) - getTime(p.completedDate) > 0
       THEN <<p>> \o sorted
       ELSE <<Head(sorted)>> \o insertByDate(Tail(sorted), p)

\* .sort((a, b) => time(a) - time(b)), stable
RECURSIVE sortByDate(_)
sortByDate(list) ==
  IF list = <<>> THEN <<>>
  ELSE insertByDate(sortByDate(SubSeq(list, 1, Len(list) - 1)), list[Len(list)])

\* a walk that counts the entries, whatever their days
streakLoop_countsEntries(completed, i, currentStreak, longestStreak) ==
  <<Len(completed), Len(completed)>>

\* the for loop of recalculateStatsFromHistory from index i on;
\* yields <<currentStreak, longestStreak>>
RECURSIVE streakLoop(_, _, _, _)
streakLoop(completed, i, currentStreak, longestStreak) ==
  IF i > Len(completed) THEN <<currentStreak, longestStreak>>
  ELSE
    LET diffTime == getTime(completed[i].completedDate)
                    - getTime(completed[i - 1].completedDate)
        diffDays == MathRound(diffTime, MsPerDay)
        cur == IF diffDays = 1 THEN currentStreak + 1
               ELSE IF diffDays > 1 THEN 1
               ELSE currentStreak
        lng == IF cur > longestStreak THEN cur ELSE longestStreak
    IN streakLoop(completed, i + 1, cur, lng)

\* a lapse check that fires on the day of the last completion too
isLapsed_sameDayToo(diffDaysFromToday) == diffDaysFromToday >= 0

\* a lapse check that already fires one day after the last completion
isLapsed_afterOneDay(diffDaysFromToday) == diffDaysFromToday > 0

\* if (diffDaysFromToday > 1): the streak has lapsed
isLapsed(diffDaysFromToday) == diffDaysFromToday > 1

\* a longest streak that adds the walk's to the cached one
keptLongest_sum(previous, found) == previous + found

\* a longest streak taken from the walk alone, forgetting the cached one
keptLongest_fromWalkOnly(previous, found) == found

\* Math.max(stats.longestStreak, longestStreak)
keptLongest(previous, found) == MathMax(previous, found)

\* Stats of an empty history that forget the longest streak too
emptyHistoryStats_forgetsLongest(st) == initialStats

\* if (completed.length === 0): the Stats passed to setStats
emptyHistoryStats(st) ==
  [currentStreak |-> 0,
   longestStreak |-> st.longestStreak,
   totalCompleted |-> 0,
   lastCompletedDate |-> NoDate]

\* the Stats recalculateStatsFromHistory(problemList) passes to setStats when
\* the cached stats are st and the moment is ms
recalculateStatsFromHistory(problemList, st, ms) ==
  LET completed == sortByDate(completedWithDate(problemList))
  IN IF Len(completed) = 0
     THEN emptyHistoryStats(st)
     ELSE
       LET walked == streakLoop(completed, 2, 1, 1)
           lastCompleted == completed[Len(completed)]
           diffTimeFromToday == ms - getTime(lastCompleted.completedDate)
           diffDaysFromToday == MathFloor(diffTimeFromToday, MsPerDay)
           currentStreak == IF isLapsed(diffDaysFromToday) THEN 0 ELSE walked[1]
       IN [totalCompleted |-> Len(completed),
           currentStreak |-> currentStreak,
           longestStreak |-> keptLongest(st.longestStreak, walked[2]),
           lastCompletedDate |-> lastCompleted.completedDate]

\* problems.map(p => p.id === problemId ? {...p, completed: true, completedDate: today} : p)
markedComplete(problemList, problemId, todayStr) ==
  [i \in 1..Len(problemList) |->
     IF problemList[i].id = problemId
     THEN [problemList[i] EXCEPT !.completed = TRUE, !.completedDate = todayStr]
     ELSE problemList[i]]

\* an unmark that takes the problem out of the list
markedIncomplete_dropsProblem(problemList, problemId) ==
  SelectSeq(problemList, LAMBDA p : p.id # problemId)

\* an unmark that clears the flag and leaves the date behind
markedIncomplete_keepsDate(problemList, problemId) ==
  [i \in 1..Len(problemList) |->
     IF problemList[i].id = problemId
     THEN [problemList[i] EXCEPT !.completed = FALSE]
     ELSE problemList[i]]

\* problems.map(p => p.id === problemId ? {...p, completed: false, completedDate: undefined} : p)
markedIncomplete(problemList, problemId) ==
  [i \in 1..Len(problemList) |->
     IF problemList[i].id = problemId
     THEN [problemList[i] EXCEPT !.completed = FALSE, !.completedDate = NoDate]
     ELSE problemList[i]]

\* a streak that counts a second completion of the same day as another day
newCurrentStreak_sameDayCounts(st, todayStr) ==
  IF st.lastCompletedDate # NoDate
  THEN IF st.lastCompletedDate = yesterdayString \/ st.lastCompletedDate = todayStr
       THEN st.currentStreak + 1
       ELSE 1
  ELSE 1

\* a streak without the consecutive-day branch: every new day starts at 1
newCurrentStreak_neverGrows(st, todayStr) ==
  IF st.lastCompletedDate # NoDate
  THEN IF st.lastCompletedDate # todayStr THEN 1 ELSE st.currentStreak
  ELSE 1

\* a streak without the broken-streak branch: every new day adds 1
newCurrentStreak_neverResets(st, todayStr) ==
  IF st.lastCompletedDate # NoDate
  THEN IF st.lastCompletedDate # todayStr THEN st.currentStreak + 1
       ELSE st.currentStreak
  ELSE 1

\* the streak markComplete computes from the cached stats
newCurrentStreak(st, todayStr) ==
  IF st.lastCompletedDate # NoDate
  THEN IF st.lastCompletedDate = yesterdayString THEN st.currentStreak + 1
       ELSE IF st.lastCompletedDate # todayStr THEN 1
       ELSE st.currentStreak
  ELSE 1

\* a total that markComplete forgets to raise
newTotalCompleted_notCounted(st) == st.totalCompleted

\* const newTotalCompleted = stats.totalCompleted + 1
newTotalCompleted(st) == st.totalCompleted + 1

\* the Stats markComplete passes to setStats
markCompleteStats(st, todayStr) ==
  [totalCompleted |-> newTotalCompleted(st),
   currentStreak |-> newCurrentStreak(st, todayStr),
   longestStreak |-> MathMax(st.longestStreak, newCurrentStreak(st, todayStr)),
   lastCompletedDate |-> todayStr]

\* parseProblems: one record per non-blank line, each with an id never given
\* before (made is the number of ids given so far); the title is the text of
\* the line, and the lines pasted are titles numbered through: the n-th line
\* ever pasted reads n
parseProblems(lines, made) ==
  [index \in 1..lines |->
     [id |-> made + index, title |-> made + index, completed |-> FALSE,
      completedDate |-> NoDate]]

\* problems.find(p => !p.completed) || null, as an index (0 for null)
nextIncompleteProblem ==
  IF \E i \in 1..Len(problems) : ~problems[i].completed
  THEN CHOOSE i \in 1..Len(problems) :
         /\ ~problems[i].completed
         /\ \A j \in 1..(i - 1) : problems[j].completed
  ELSE 0

\* a page that never takes today's problem for done
isPotdDoneForToday_never == FALSE

isPotdDoneForToday == stats.lastCompletedDate = todayString

\* the main content area: the index of the problem TodayProblemCard shows,
\* 0 when another card (or none) is shown
todayProblemCard ==
  IF Len(problems) = 0 THEN 0
  ELSE IF isPotdDoneForToday THEN 0
  ELSE nextIncompleteProblem

(* ------------------------------ storage -------------------------------- *)

\* a key of localStorage: not there (getItem gives null), there with text
\* JSON.parse throws on, or there with the JSON of a value
missingKey(defaultValue) ==
  [present |-> FALSE, parses |-> FALSE, value |-> defaultValue]

corruptKey(defaultValue) ==
  [present |-> TRUE, parses |-> FALSE, value |-> defaultValue]

\* localStorage.setItem(key, JSON.stringify(data))
saveToStorage(data) == [present |-> TRUE, parses |-> TRUE, value |-> data]

\* loadFromStorage(key, defaultValue)
loadFromStorage(key, defaultValue) ==
  IF key.present /\ key.parses THEN key.value ELSE defaultValue

(* ------------------------------ effects -------------------------------- *)

\* the effect on [problems]: saved unless the list is empty
saveProblems(store, newProblems) ==
  IF Len(newProblems) > 0
  THEN [store EXCEPT !.problems = saveToStorage(newProblems)]
  ELSE store

\* the effect on [stats]
saveStats(store, newStats) ==
  [store EXCEPT !.stats = saveToStorage(newStats)]

\* the effect on [darkMode]: runs when the boolean has changed
saveDarkMode(store, oldDarkMode, newDarkMode) ==
  IF newDarkMode # oldDarkMode
  THEN [store EXCEPT !.darkMode = saveToStorage(newDarkMode)]
  ELSE store

(* --------------------------- record of calls --------------------------- *)

\* what the store says of an id before a call: "completed", "incomplete", or
\* "unknown" when no problem has it
wasOf(problemId) ==
  IF \E i \in 1..Len(problems) : problems[i].id = problemId /\ problems[i].completed
  THEN "completed"
  ELSE IF \E i \in 1..Len(problems) : problems[i].id = problemId
       THEN "incomplete"
       ELSE "unknown"

\* hist: the names of the mark/unmark calls made so far, in order, while they
\* are at most MaxHist; after that nothing is recorded and histLost says so
recorded(op) ==
  IF histLost \/ Len(hist) >= MaxHist
  THEN /\ hist' = <<>>
       /\ histLost' = TRUE
  ELSE /\ hist' = Append(hist, op)
       /\ histLost' = FALSE

(* ------------------------------ handlers ------------------------------- *)

\* the page after its first load in a browser that has stored nothing: the
\* load effect finds no key, the save effects write the initial Stats and skip
\* the empty list
Init ==
  /\ problems = <<>>
  /\ stats = initialStats
  /\ today = 0
  /\ stamp = 0
  /\ storage = [problems |-> missingKey(<<>>),
                stats |-> saveToStorage(initialStats),
                darkMode |-> saveToStorage(FALSE)]
  /\ hist = <<>>
  /\ histLost = FALSE
  /\ darkMode = FALSE

markComplete(problemId) ==
  LET updatedProblems == markedComplete(problems, problemId, todayString)
      newStats == markCompleteStats(stats, todayString)
  IN /\ stats.totalCompleted < MaxTotal
     /\ stats' = newStats
     /\ problems' = updatedProblems
     /\ storage' = saveStats(saveProblems(storage, updatedProblems), newStats)
     /\ recorded("markComplete")
     /\ UNCHANGED <<today, stamp, darkMode>>

markIncomplete(problemId, tod) ==
  LET updatedProblems == markedIncomplete(problems, problemId)
      newStats == recalculateStatsFromHistory(updatedProblems, stats, nowMs(tod))
  IN /\ problems' = updatedProblems
     /\ stats' = newStats
     /\ storage' = saveStats(saveProblems(storage, updatedProblems), newStats)
     /\ recorded("markIncomplete")
     /\ UNCHANGED <<today, stamp, darkMode>>

\* "Mark Done" of a history row: shown for a problem that is not completed
ClickMarkDone ==
  \E i \in 1..Len(problems) :
    /\ ~problems[i].completed
    /\ markComplete(problems[i].id)

\* the button of today's problem card: shown while the store is not empty and
\* today's problem is not done, for the first problem that is not completed
ClickTodayProblem ==
  /\ Len(problems) # 0
  /\ ~isPotdDoneForToday
  /\ nextIncompleteProblem # 0
  /\ markComplete(problems[nextIncompleteProblem].id)

\* "Mark as incomplete" of a history row: shown for a completed problem
ClickMarkIncomplete ==
  \E i \in 1..Len(problems), tod \in TimesOfDay :
    /\ problems[i].completed
    /\ markIncomplete(problems[i].id, tod)

handleUploadProblems ==
  \E lines \in 1..MaxLines :
    /\ Len(problems) + lines <= MaxProblems
    /\ problems' = problems \o parseProblems(lines, stamp)
    /\ stamp' = stamp + lines
    /\ storage' = saveProblems(storage, problems')
    /\ UNCHANGED <<stats, today, hist, histLost, darkMode>>

\* midnight passes: no handler and no effect runs, the next handler reads the
\* new day
DayPasses ==
  /\ today < MaxDay
  /\ today' = today + 1
  /\ UNCHANGED <<problems, stats, stamp, storage, hist, histLost, darkMode>>

\* markComplete called with any id at all, as its signature allows; the page's
\* own buttons never pass the id of a completed or unknown problem
CallMarkComplete ==
  \E problemId \in IdUniverse : markComplete(problemId)

Next ==
  \/ handleUploadProblems
  \/ ClickMarkDone
  \/ ClickTodayProblem
  \/ ClickMarkIncomplete
  \/ DayPasses

\* the page driven through its buttons
Spec == Init /\ [][Next]_vars

NextDirect ==
  \/ Next
  \/ CallMarkComplete

\* the page with markComplete also open to direct calls
SpecDirect == Init /\ [][NextDirect]_vars

(* ---------------- import, clear, reload and the stored keys ------------- *)

\* a field of an imported object: absent, or there with a value
absentField(defaultValue) == [has |-> FALSE, value |-> defaultValue]

givenField(v) == [has |-> TRUE, value |-> v]

\* the store and the Stats of a backup taken after one completion on day 0
backupProblems ==
  <<[id |-> 1, title |-> 1, completed |-> TRUE, completedDate |-> 0]>>

backupStats ==
  [currentStreak |-> 1, longestStreak |-> 1, totalCompleted |-> 1,
   lastCompletedDate |-> 0]

\* the files handed to importData: one JSON.parse throws on, and objects with
\* each of problems, stats and darkMode there or not
importBundles ==
  {[parses |-> FALSE, problems |-> absentField(<<>>),
    stats |-> absentField(initialStats), darkMode |-> absentField(FALSE)]}
  \cup
  [parses : {TRUE},
   problems : {absentField(<<>>), givenField(<<>>), givenField(backupProblems)},
   stats : {absentField(initialStats), givenField(backupStats)},
   darkMode : {absentField(FALSE), givenField(TRUE)}]

\* the largest id of a problem list (0 for none): once the store is replaced
\* the ids it held are gone for good, and the numbering goes on from the
\* newest id of the new store
maxId(problemList) ==
  IF problemList = <<>> THEN 0
  ELSE CHOOSE m \in {problemList[i].id : i \in 1..Len(problemList)} :
         \A i \in 1..Len(problemList) : problemList[i].id <= m

\* reader.onload of importData with the file read, and the save effects
importData(bundle) ==
  IF ~bundle.parses
  THEN UNCHANGED vars
  ELSE
    /\ problems' = IF bundle.problems.has THEN bundle.problems.value ELSE problems
    /\ stats' = IF bundle.stats.has THEN bundle.stats.value ELSE stats
    /\ darkMode' = IF bundle.darkMode.has THEN bundle.darkMode.value ELSE darkMode
    /\ storage' =
         LET afterProblems == IF bundle.problems.has
                              THEN saveProblems(storage, problems')
                              ELSE storage
             afterStats == IF bundle.stats.has
                           THEN saveStats(afterProblems, stats')
                           ELSE afterProblems
         IN saveDarkMode(afterStats, darkMode, darkMode')
    /\ stamp' = maxId(problems')
    /\ hist' = <<>>
    /\ histLost' = TRUE
    /\ UNCHANGED today

ChooseImportFile == \E bundle \in importBundles : importData(bundle)

\* clearAllData with the confirm accepted, and the save effects: the empty
\* list is not saved, the Stats are, darkMode only if it was on
clearAllData ==
  /\ problems' = <<>>
  /\ stats' = initialStats
  /\ darkMode' = FALSE
  /\ storage' = saveDarkMode([problems |-> missingKey(<<>>),
                              stats |-> saveToStorage(initialStats),
                              darkMode |-> missingKey(FALSE)],
                             darkMode, FALSE)
  /\ stamp' = 0
  /\ hist' = <<>>
  /\ histLost' = FALSE
  /\ UNCHANGED today

\* onClick={() => setDarkMode(!darkMode)}
toggleDarkMode ==
  /\ darkMode' = ~darkMode
  /\ storage' = saveDarkMode(storage, darkMode, darkMode')
  /\ UNCHANGED <<problems, stats, today, stamp, hist, histLost>>

\* the page is loaded again: the load effect reads the three keys, then the
\* save effects run on what was loaded
reload ==
  /\ problems' = loadFromStorage(storage.problems, <<>>)
  /\ stats' = loadFromStorage(storage.stats, initialStats)
  /\ darkMode' = loadFromStorage(storage.darkMode, FALSE)
  /\ storage' = [saveStats(saveProblems(storage, problems'), stats')
                   EXCEPT !.darkMode = saveToStorage(darkMode')]
  /\ stamp' = maxId(problems')
  /\ hist' = <<>>
  /\ histLost' = TRUE
  /\ UNCHANGED today

\* outside the page, potd-problems or potd-stats is removed or overwritten
\* with text that is not JSON
storageDamaged ==
  /\ storage.problems.parses
  /\ storage.stats.parses
  /\ \/ storage' = [storage EXCEPT !.problems = missingKey(<<>>)]
     \/ storage' = [storage EXCEPT !.problems = corruptKey(<<>>)]
     \/ storage' = [storage EXCEPT !.stats = missingKey(initialStats)]
     \/ storage' = [storage EXCEPT !.stats = corruptKey(initialStats)]
  /\ UNCHANGED <<problems, stats, today, stamp, hist, histLost, darkMode>>

NextData ==
  \/ handleUploadProblems
  \/ ClickMarkDone
  \/ ClickTodayProblem
  \/ ClickMarkIncomplete
  \/ ChooseImportFile
  \/ clearAllData
  \/ toggleDarkMode
  \/ reload
  \/ storageDamaged

\* the page within one day, with its data controls, page loads and a storage
\* that can be damaged
SpecData == Init /\ [][NextData]_vars

NextClear ==
  \/ Next
  \/ clearAllData

\* the page driven through its buttons, Clear All Data among them
SpecClear == Init /\ [][NextClear]_vars

NextClearDirect ==
  \/ NextDirect
  \/ clearAllData

\* the same with markComplete also open to direct calls
SpecClearDirect == Init /\ [][NextClearDirect]_vars

(* ------------- recalculateStatsFromHistory on its own ------------------ *)

\* any Problem[] of up to MaxRecalcLen entries: every combination of flag and
\* date, a flag without a date and a date without a flag included
recalcProblemLists ==
  UNION {[1..n -> [id : {0}, title : {0}, completed : BOOLEAN,
                   completedDate : {NoDate} \cup 0..MaxRecalcDay]]
         : n \in 0..MaxRecalcLen}

\* cached Stats the function may find: it reads longestStreak only
recalcPriorStats ==
  [currentStreak : {0, 1}, longestStreak : 0..(MaxRecalcLen + 1),
   totalCompleted : {0}, lastCompletedDate : {NoDate, 0}]

InitRecalc ==
  /\ problems \in recalcProblemLists
  /\ stats \in recalcPriorStats
  /\ today \in 0..MaxDay
  /\ stamp = 0
  /\ storage = [problems |-> missingKey(<<>>),
                stats |-> saveToStorage(stats),
                darkMode |-> saveToStorage(FALSE)]
  /\ hist = <<>>
  /\ histLost = FALSE
  /\ darkMode = FALSE

\* recalculateStatsFromHistory(problems) run at some time of today
recalculate ==
  \E tod \in TimesOfDay :
    /\ stats' = recalculateStatsFromHistory(problems, stats, nowMs(tod))
    /\ storage' = saveStats(storage, stats')
    /\ UNCHANGED <<problems, today, stamp, hist, histLost, darkMode>>

NextRecalc == recalculate

\* the recomputation applied to any store and any cached Stats
SpecRecalc == InitRecalc /\ [][NextRecalc]_vars

(* ------------------------------- claims -------------------------------- *)

\* the call record is whole and ends with this call
lastCallIs(op) ==
  /\ ~histLost
  /\ hist # <<>>
  /\ hist[Len(hist)] = op

\* problems.filter(p => p.completed).length
completedCount == Cardinality({i \in 1..Len(problems) : problems[i].completed})

\* C1: in every state reached by uploads, markComplete, markIncomplete and
\* passing days, stats.totalCompleted is the number of problems whose completed
\* flag is true.
C1_TotalCompletedIsCount == stats.totalCompleted = completedCount

\* C2: no step lowers stats.longestStreak.
C2_LongestStreakNeverDecreases ==
  [][stats'.longestStreak >= stats.longestStreak]_vars

\* an unmark on day 1 has just removed the day-0 completion of a two-day
\* streak: the recomputed history holds a streak of 1, the longest stays 2
C2_Witness ==
  /\ ~histLost
  /\ hist = <<"markComplete", "markComplete", "markIncomplete">>
  /\ today = 1
  /\ stats = [currentStreak |-> 1, longestStreak |-> 2, totalCompleted |-> 1,
              lastCompletedDate |-> 1]

\* some markComplete call makes this step (the Stats are compared first: they
\* do not depend on the id)
markCompleteStep ==
  /\ stats' = markCompleteStats(stats, todayString)
  /\ \E problemId \in IdUniverse : markComplete(problemId)

\* C3: the Stats a markComplete call sets are the Stats a recomputation over
\* the updated store gives at that moment from the same cached longestStreak.
C3_IncrementalEqualsRecomputed ==
  [][markCompleteStep
       => \A at \in TimesOfDay :
            stats' = recalculateStatsFromHistory(problems', stats, nowMs(at))]_vars

\* C4: markComplete of a problem that is already completed leaves
\* stats.totalCompleted as it was.
C4_RemarkKeepsTotal ==
  [][\A problemId \in IdUniverse :
       (wasOf(problemId) = "completed" /\ markComplete(problemId))
         => stats'.totalCompleted = stats.totalCompleted]_vars

\* the Stats after markComplete(problemId) and then markIncomplete(problemId)
\* at time of day tod, both today, from the present state
roundTripStats(problemId, tod) ==
  LET marked == markedComplete(problems, problemId, todayString)
      afterMark == markCompleteStats(stats, todayString)
  IN recalculateStatsFromHistory(markedIncomplete(marked, problemId), afterMark,
                                 nowMs(tod))

\* the last completion is at most one day old (or there is none)
notStale ==
  stats.lastCompletedDate = NoDate \/ today - stats.lastCompletedDate <= 1

statsAgreeWithStore ==
  \A tod \in TimesOfDay :
    recalculateStatsFromHistory(problems, stats, nowMs(tod)) = stats

C6_UnknownIdIsNoOp ==
  [][\A problemId \in IdUniverse :
       (wasOf(problemId) = "unknown" /\ markComplete(problemId))
         => (problems' = problems /\ stats' = stats)]_vars

\* C7: a problem has a completedDate exactly when its completed flag is true.
C7_DateIffCompleted ==
  \A i \in 1..Len(problems) :
    (problems[i].completedDate # NoDate) <=> problems[i].completed

\* an unmark on day 1 has just cleared the second problem; the first keeps
\* its flag and its date of day 0
C7_Witness ==
  /\ lastCallIs("markIncomplete")
  /\ Len(hist) = 3
  /\ today = 1
  /\ Len(problems) >= 2
  /\ problems[1].completed
  /\ problems[1].completedDate = 0
  /\ ~problems[2].completed
  /\ problems[2].completedDate = NoDate

\* C8: whenever today is more than one day after stats.lastCompletedDate,
\* stats.currentStreak is 0.
C8_StaleStreakIsZero ==
  (stats.lastCompletedDate # NoDate /\ today - stats.lastCompletedDate > 1)
    => stats.currentStreak = 0

\* the calls so far are exactly n marks, each of a problem not yet completed:
\* no completion was ever removed, so the completed problems with their
\* completedDate are the marks made and the days they were made on
onlyMarks(n) ==
  /\ ~histLost
  /\ hist = [k \in 1..n |-> "markComplete"]
  /\ completedCount = n

\* the days on which the completed problems were marked
markDays ==
  {problems[i].completedDate : i \in {j \in 1..Len(problems) : problems[j].completed}}

\* C9: from the empty history, three problems marked on three consecutive
\* days, one a day, give currentStreak 3 and longestStreak at least 3.
C9_ThreeConsecutiveDays ==
  (/\ onlyMarks(3)
   /\ \E D \in 0..MaxDay : markDays = {D, D + 1, D + 2})
    => (stats.currentStreak = 3 /\ stats.longestStreak >= 3)

\* the third of three marks, on days 1, 2 and 3, has just been made
C9_Witness ==
  /\ onlyMarks(3)
  /\ markDays = {1, 2, 3}
  /\ today = 3
  /\ stats.currentStreak = 3
  /\ stats.longestStreak = 3

\* C10: from the empty history, one problem marked on day D and another on
\* day D+5 give currentStreak 1 and longestStreak 1.
C10_FiveDayGapResets ==
  (/\ onlyMarks(2)
   /\ \E D \in 0..MaxDay : markDays = {D, D + 5})
    => (stats.currentStreak = 1 /\ stats.longestStreak = 1)

\* the second mark has just been made on day 5, the first was on day 0
C10_Witness ==
  /\ onlyMarks(2)
  /\ markDays = {0, 5}
  /\ today = 5
  /\ stats = [currentStreak |-> 1, longestStreak |-> 1, totalCompleted |-> 2,
              lastCompletedDate |-> 5]

\* the store holds exactly three completions, made on days D, D+1 and D+2
threeDayStreak(D) ==
  /\ completedCount = 3
  /\ markDays = {D, D + 1, D + 2}

\* C11: with three problems completed on consecutive days D, D+1, D+2 and the
\* D+2 completion at most one day old, markIncomplete of the problem
\* completed on D leaves currentStreak 2.
C11_UnmarkOldestOfThree ==
  [][\A D \in 0..MaxDay, i \in 1..Len(problems), tod \in TimesOfDay :
       (/\ threeDayStreak(D)
        /\ today - (D + 2) <= 1
        /\ problems[i].completedDate = D
        /\ markIncomplete(problems[i].id, tod))
         => stats'.currentStreak = 2]_vars

\* after marks on days 1, 2 and 3 the day-1 completion has just been removed
\* on day 3: days 2 and 3 remain
C11_Witness ==
  /\ ~histLost
  /\ hist = <<"markComplete", "markComplete", "markComplete", "markIncomplete">>
  /\ markDays = {2, 3}
  /\ completedCount = 2
  /\ today = 3
  /\ stats = [currentStreak |-> 2, longestStreak |-> 3, totalCompleted |-> 2,
              lastCompletedDate |-> 3]

\* C12: recalculateStatsFromHistory run again on the same store, at any
\* moment of the same day, gives the Stats its first run gave.
C12_RecalculateIsIdempotent ==
  \A first \in TimesOfDay, second \in TimesOfDay :
    LET once == recalculateStatsFromHistory(problems, stats, nowMs(first))
    IN recalculateStatsFromHistory(problems, once, nowMs(second)) = once

\* the recomputation has run over completions on days 1 and 2 and found the
\* streak of 2 (no cached Stats handed in has a currentStreak above 1)
C12_Witness ==
  /\ Len(problems) = 2
  /\ markDays = {1, 2}
  /\ completedCount = 2
  /\ today = 2
  /\ stats = [currentStreak |-> 2, longestStreak |-> 2, totalCompleted |-> 2,
              lastCompletedDate |-> 2]
  /\ storage.stats.value = stats

\* an object that lacks one of problems, stats, darkMode, or a file that is
\* not JSON
lacksShape(bundle) ==
  \/ ~bundle.parses
  \/ ~bundle.problems.has
  \/ ~bundle.stats.has
  \/ ~bundle.darkMode.has

\* C13: importing a bundle that lacks the required shape changes none of the
\* problem store, the Stats and darkMode.
C13_MalformedImportRejected ==
  [][\A bundle \in importBundles :
       (lacksShape(bundle) /\ importData(bundle))
         => UNCHANGED <<problems, stats, darkMode>>]_vars

\* getItem gives null for the key, or text JSON.parse throws on
unreadable(key) == ~key.present \/ ~key.parses

\* C14: a page load that finds potd-problems or potd-stats missing or corrupt
\* ends with the empty problem store and the zeroed Stats.
C14_LoadFallsBackToEmptyAndZero ==
  [][(/\ unreadable(storage.problems) \/ unreadable(storage.stats)
      /\ reload)
       => (problems' = <<>> /\ stats' = initialStats)]_vars

\* the number of consecutive calendar days, counted back from day L, that
\* are all in days
RECURSIVE runEndingAt(_, _)
runEndingAt(days, L) ==
  IF L \in days THEN 1 + runEndingAt(days, L - 1) ELSE 0

\* the latest day of a non-empty set of days
latestOf(days) == CHOOSE L \in days : \A d \in days : d <= L

\* C15: after markIncomplete on day N leaves completions in the store, the
\* latest on day L: currentStreak is 0 when N - L > 1, and otherwise the
\* length of the run of consecutive days with completions that ends at L.
C15_RecomputedCurrentStreak ==
  [][\A i \in 1..Len(problems), tod \in TimesOfDay :
       (markIncomplete(problems[i].id, tod) /\ completedCount' > 0)
         => LET L == latestOf(markDays')
            IN stats'.currentStreak =
                 IF today - L > 1 THEN 0 ELSE runEndingAt(markDays', L)]_vars

\* marks on days 0 and 1, then on day 3 the day-1 completion was removed:
\* day 0 is three days back and the streak is 0
C15_Witness ==
  /\ ~histLost
  /\ hist = <<"markComplete", "markComplete", "markIncomplete">>
  /\ today = 3
  /\ markDays = {0}
  /\ stats = [currentStreak |-> 0, longestStreak |-> 2, totalCompleted |-> 1,
              lastCompletedDate |-> 0]

\* C16: markComplete on day T of a problem that is not completed, with L the
\* cached lastCompletedDate, sets currentStreak to 1 without an L, leaves it
\* when T - L = 0, adds 1 when T - L = 1 and sets 1 when T - L > 1; it sets
\* longestStreak to the larger of its old value and the new currentStreak,
\* adds 1 to totalCompleted and sets lastCompletedDate to T.
C16_MarkCompleteBranches ==
  [][\A problemId \in IdUniverse :
       (/\ wasOf(problemId) = "incomplete"
        /\ stats.lastCompletedDate = NoDate \/ today - stats.lastCompletedDate >= 0
        /\ markComplete(problemId))
         => LET L == stats.lastCompletedDate
                T == today
                expected == IF L = NoDate THEN 1
                            ELSE IF T - L = 0 THEN stats.currentStreak
                            ELSE IF T - L = 1 THEN stats.currentStreak + 1
                            ELSE 1
            IN /\ stats'.currentStreak = expected
               /\ stats'.longestStreak =
                    (IF expected > stats.longestStreak THEN expected
                     ELSE stats.longestStreak)
               /\ stats'.totalCompleted = stats.totalCompleted + 1
               /\ stats'.lastCompletedDate = T]_vars

\* a mark on day 0 and one on day 1: the second took the T - L = 1 branch
C16_Witness ==
  /\ ~histLost
  /\ hist = <<"markComplete", "markComplete">>
  /\ today = 1
  /\ markDays = {0, 1}
  /\ stats = [currentStreak |-> 2, longestStreak |-> 2, totalCompleted |-> 2,
              lastCompletedDate |-> 1]

\* C17: when markIncomplete removes the last completion left in the store,
\* the Stats become currentStreak 0, totalCompleted 0, no lastCompletedDate,
\* and the longestStreak of before the call.
C17_LastCompletionRemoved ==
  [][\A i \in 1..Len(problems), tod \in TimesOfDay :
       (/\ problems[i].completed
        /\ markIncomplete(problems[i].id, tod)
        /\ completedWithDate(problems') = <<>>)
         => /\ stats'.currentStreak = 0
            /\ stats'.totalCompleted = 0
            /\ stats'.lastCompletedDate = NoDate
            /\ stats'.longestStreak = stats.longestStreak]_vars

\* the only completion, made on day 0, has just been removed
C17_Witness ==
  /\ ~histLost
  /\ hist = <<"markComplete", "markIncomplete">>
  /\ Len(problems) > 0
  /\ completedCount = 0
  /\ stats = [currentStreak |-> 0, longestStreak |-> 1, totalCompleted |-> 0,
              lastCompletedDate |-> NoDate]

\* another completed problem carries the completedDate of problem i
sharesItsDay(i) ==
  \E j \in 1..Len(problems) :
    /\ j # i
    /\ problems[j].completed
    /\ problems[j].completedDate = problems[i].completedDate

\* C18: completions of one calendar day count as one day of streak.
\* markComplete of a further problem on a day that already has a completion
\* leaves currentStreak as it is; markIncomplete of a completion whose day
\* another completion shares gives the currentStreak a recomputation gave
\* with it.
C18_SameDayCountsOnce ==
  [][/\ \A problemId \in IdUniverse :
          (/\ wasOf(problemId) = "incomplete"
           /\ todayString \in markDays
           /\ markComplete(problemId))
            => stats'.currentStreak = stats.currentStreak
     /\ \A i \in 1..Len(problems), tod \in TimesOfDay :
          (/\ problems[i].completed
           /\ sharesItsDay(i)
           /\ markIncomplete(problems[i].id, tod))
            => stats'.currentStreak =
                 recalculateStatsFromHistory(problems, stats, nowMs(tod)).currentStreak
    ]_vars

\* two problems marked on day 0: the second left the streak at 1
C18_Witness ==
  /\ ~histLost
  /\ hist = <<"markComplete", "markComplete">>
  /\ today = 0
  /\ markDays = {0}
  /\ completedCount = 2
  /\ stats = [currentStreak |-> 1, longestStreak |-> 1, totalCompleted |-> 2,
              lastCompletedDate |-> 0]

\* the list after the step has the problems of before, in their order, each
\* with its id and title, and differs at most in the flag and the date of
\* the problems whose id is problemId
onlyFlagAndDateOf(problemId) ==
  /\ Len(problems') = Len(problems)
  /\ \A i \in 1..Len(problems) :
       /\ problems'[i].id = problems[i].id
       /\ problems'[i].title = problems[i].title
       /\ problems[i].id # problemId => problems'[i] = problems[i]

\* C19: markComplete(id) and markIncomplete(id) add, remove and reorder no
\* problem and change nothing but the completed flag and the completedDate
\* of the problems whose id is the argument.  (Written consequent first: a
\* step that keeps the frame of an id needs no look at who made it.)
C19_MarkFrame ==
  [][\A problemId \in IdUniverse :
       \/ onlyFlagAndDateOf(problemId)
       \/ ~(\/ markComplete(problemId)
            \/ \E tod \in TimesOfDay : markIncomplete(problemId, tod))]_vars

\* of two problems the second was marked and unmarked: both are in the list,
\* in their order, neither completed
C19_Witness ==
  /\ ~histLost
  /\ hist = <<"markComplete", "markIncomplete">>
  /\ Len(problems) = 2
  /\ problems[1].id = 1 /\ problems[1].title = 1
  /\ problems[2].id = 2 /\ problems[2].title = 2
  /\ completedCount = 0
  /\ stats.longestStreak = 1

\* what the card shows is the first problem, in list order, that is not
\* completed, and it shows only with a store that is not empty and a
\* lastCompletedDate that is not today
cardIsFirstIncomplete ==
  todayProblemCard # 0
    => /\ Len(problems) # 0
       /\ stats.lastCompletedDate # today
       /\ todayProblemCard \in 1..Len(problems)
       /\ ~problems[todayProblemCard].completed
       /\ \A j \in 1..(todayProblemCard - 1) : problems[j].completed

\* C20: today's problem is the first problem in insertion order that is not
\* completed, offered only while the store is not empty and
\* stats.lastCompletedDate is not today; after a markComplete it is not
\* offered, and it stays away while the day and stats.lastCompletedDate stay
\* the same.
C20_TodayProblemOffer ==
  /\ []cardIsFirstIncomplete
  /\ [][/\ markCompleteStep => todayProblemCard' = 0
        /\ (/\ isPotdDoneForToday
            /\ today' = today
            /\ stats'.lastCompletedDate = stats.lastCompletedDate)
             => todayProblemCard' = 0]_vars

\* the first problem was completed on day 0; on day 1 the card offers the
\* second
C20_Witness ==
  /\ ~histLost
  /\ hist = <<"markComplete">>
  /\ today = 1
  /\ Len(problems) >= 2
  /\ problems[1].completed
  /\ stats.lastCompletedDate = 0
  /\ todayProblemCard = 2

\* C21: in every state reached by markComplete, markIncomplete, uploads,
\* clearAllData and passing days, stats.currentStreak is at most
\* stats.longestStreak.
C21_CurrentAtMostLongest == stats.currentStreak <= stats.longestStreak

\* all data was cleared (potd-darkmode is gone since), and two problems were
\* then marked on days 0 and 1
C21_Witness ==
  /\ ~storage.darkMode.present
  /\ ~histLost
  /\ hist = <<"markComplete", "markComplete">>
  /\ today = 1
  /\ stats = [currentStreak |-> 2, longestStreak |-> 2, totalCompleted |-> 2,
              lastCompletedDate |-> 1]

\* no streak of 0 goes with a lastCompletedDate of today
noZeroStreakToday ==
  ~(stats.currentStreak = 0 /\ stats.lastCompletedDate = today)

\* C22: right after any markComplete call stats.currentStreak is at least 1
\* and stats.lastCompletedDate is the current day; no state has a streak of
\* 0 with a lastCompletedDate of today for the same-day branch to keep.
C22_StreakAtLeastOneAfterMark ==
  /\ []noZeroStreakToday
  /\ [][markCompleteStep
         => (stats'.currentStreak >= 1 /\ stats'.lastCompletedDate = today')]_vars

\* on day 0 two problems were marked, the second unmarked (a recomputation)
\* and marked again: the same-day branch kept the streak of 1
C22_Witness ==
  /\ ~histLost
  /\ hist = <<"markComplete", "markComplete", "markIncomplete", "markComplete">>
  /\ today = 0
  /\ completedCount = 2
  /\ stats = [currentStreak |-> 1, longestStreak |-> 1, totalCompleted |-> 2,
              lastCompletedDate |-> 0]

\* the step is made by one of the handlers that set the problem list
setsProblemList ==
  \/ handleUploadProblems
  \/ ClickMarkDone
  \/ ClickTodayProblem
  \/ ClickMarkIncomplete
  \/ ChooseImportFile
  \/ clearAllData

\* C23: after an upload, markComplete, markIncomplete, import or clearAllData
\* has changed the problem list and the save effect has run, a load from
\* storage gives the list that is in memory, the empty list included.
\* (Written consequent first.)
C23_StoredListIsMemoryList ==
  [][\/ loadFromStorage(storage'.problems, <<>>) = problems'
     \/ ~(problems' # problems /\ setsProblemList)]_vars

====
